---- MODULE Spec2Model ----
(***************************************************************************)
(* A model of the execution sandbox of data-to-paper:                      *)
(*   run_context.py      prevent_file_open, prevent_calling, PreventImport *)
(*   override_sklearn.py SklearnOverride, SklearnSearchLimitCheck,         *)
(*                       SklearnRandomStateOverride, SklearnNNSizeOverride *)
(*   converation_manager.py ConversationManager                            *)
(*                                                                         *)
(* Text (file names, module names, open modes) is a sequence of one        *)
(* character strings, so that endswith / startswith / `in` are computed    *)
(* the way Python computes them.                                           *)
(*                                                                         *)
(* A callable is the sequence of the closures wrapped around a builtin,    *)
(* outermost first: << >> is the genuine builtin, <<c>> \o f is the        *)
(* wrapper with closure c whose captured original is f.  A closure holds   *)
(* the serial number g of the guard instance that made it, so wrappers of  *)
(* two guard instances are never the same value.                           *)
(*                                                                         *)
(* Every `with` statement of the run builds its guard anew, the way        *)
(* run_code_in_module does: `with PreventImport(modules): ...`.            *)
(***************************************************************************)
EXTENDS Integers, Sequences, FiniteSets, TLC

VARIABLES
    env,      \* the patchable operations: builtins.open, builtins.__import__, owner.f1, owner.f2
    stack,    \* the guards whose scope is open, outermost first
    nguards,  \* guard instances created so far
    pc,       \* "running": the guarded body runs; "returned": a call of the body has
              \* just returned; "raising": an error propagates
    exc,      \* the error in flight (NoExc when none)
    last,     \* what the last step did (observation only)
    sk,       \* sklearn policies: patched class attributes, objects, configuration
    skLast,   \* what the last sklearn step did (observation only)
    cm,       \* the ConversationManager: conversations, conversation_names_and_actions
    cmLast    \* what the last ConversationManager call did (observation only)

vars == <<env, stack, nguards, pc, exc, last, sk, skLast, cm, cmLast>>
guardVars == <<env, stack, nguards, pc, exc, last>>
skVars == <<sk, skLast>>
cmVars == <<cm, cmLast>>

------------------------------------------------------------------------------
(* Bounds *)

MaxGuards == 2     \* guard instances created in one run (so at most as many are nested)
MaxCalls == 3      \* calls of fit-style operations on one object
MaxLen == 13       \* largest computed search-space size
MaxStack == 2      \* frames of the caller's stack that are looked at
MaxRecursion == 3  \* nested calls the interpreter allows before RecursionError
MaxActions == 3    \* recorded actions after which no further manager call is made

------------------------------------------------------------------------------
(* Text *)

EndsWith(s, suffix) ==
    /\ Len(s) >= Len(suffix)
    /\ SubSeq(s, Len(s) - Len(suffix) + 1, Len(s)) = suffix

StartsWith(s, prefix) ==
    /\ Len(s) >= Len(prefix)
    /\ SubSeq(s, 1, Len(prefix)) = prefix

\* Python's `x in list`
InList(x, list) == \E i \in 1..Len(list) : list[i] = x

\* dynamic_code.module_filename: the file name the sandboxed unit is loaded under ("s.py")
module_filename == <<"s", ".", "p", "y">>

SandboxFile == <<"/", "s", ".", "p", "y">>          \* the sandboxed unit
FrameworkFile == <<"/", "f", ".", "p", "y">>        \* trusted framework or test code
LookalikeFile == <<"/", "f", "s", ".", "p", "y">>   \* framework code, "/fs.py"
RunContextFile == <<"/", "r", ".", "p", "y">>       \* run_context.py itself

CallerFiles == {SandboxFile, FrameworkFile, LookalikeFile}

\* frame = traceback.extract_stack()[-2]; frame.filename.endswith(module_filename)
Attributed(caller) == EndsWith(caller, module_filename)

------------------------------------------------------------------------------
(* Results of a call.  trace lists, outermost first, every callable that  *)
(* a wrapper delegated to, with the arguments it was given.                *)

Return(type, detail) == [kind |-> "return", type |-> type, detail |-> detail, trace |-> <<>>]
Raise(type, detail) == [kind |-> "raise", type |-> type, detail |-> detail, trace |-> <<>>]

\* r, reached by delegating to callable f with arguments a
Via(f, a, r) == [r EXCEPT !.trace = <<[callee |-> f, args |-> a]>> \o r.trace]

Err(r) == [type |-> r.type, detail |-> r.detail]
NoExc == [type |-> "none", detail |-> <<>>]

BaseOutcomes == {"ok", "error"}

------------------------------------------------------------------------------
(* prevent_file_open *)

Files == {"a.txt", "b.txt"}
NoneFile == "None"        \* Python's None as a file name (kwargs.get('file', None))

Modes == {<<"r">>, <<"w">>, <<"a">>, <<"x">>, <<"w", "b">>, <<"r", "+">>}
KwModes == {<<"r">>, <<"a">>}      \* the modes passed by keyword

\* an allow-list argument: None, or a list of files
AllowNone == [isNone |-> TRUE, items |-> <<>>]
AllowOnly(items) == [isNone |-> FALSE, items |-> items]
\* the (allowed_read_files, allowed_write_files) a guard is built with
AllowPairs == {<<AllowNone, AllowNone>>,
               <<AllowOnly(<<"a.txt">>), AllowNone>>,
               <<AllowNone, AllowOnly(<<"a.txt">>)>>,
               <<AllowOnly(<<"a.txt">>), AllowOnly(<<>>)>>,
               <<AllowOnly(<<>>), AllowOnly(<<"a.txt">>)>>}

\* open(*args, **kwargs) as the sandboxed or trusted code may write it:
\* open(f, m), open(f), open(f, mode=m), open(file=f, mode=m), open()
NoKw == [k \in {} |-> <<>>]
OpenCalls ==
    {[args |-> <<f, m>>, kwargs |-> NoKw] : f \in Files, m \in Modes}
    \cup {[args |-> <<f>>, kwargs |-> NoKw] : f \in Files}
    \cup {[args |-> <<f>>, kwargs |-> [k \in {"mode"} |-> m]] : f \in Files, m \in KwModes}
    \cup {[args |-> <<>>, kwargs |-> [k \in {"file", "mode"} |-> IF k = "file" THEN f ELSE m]] :
            f \in Files, m \in KwModes}
    \cup {[args |-> <<>>, kwargs |-> NoKw]}

\* kwargs.get(key, default)
KwGet(kwargs, key, default) == IF key \in DOMAIN kwargs THEN kwargs[key] ELSE default

\* file_name = args[0] if len(args) > 0 else kwargs.get('file', None)
file_name_of(call) ==
    IF Len(call.args) > 0 THEN call.args[1] ELSE KwGet(call.kwargs, "file", NoneFile)

\* open_mode = args[1] if len(args) > 1 else kwargs.get('mode', 'r')
open_mode_of(call) ==
    IF Len(call.args) > 1 THEN call.args[2] ELSE KwGet(call.kwargs, "mode", <<"r">>)

\* is_opening_for_writing = open_mode in ['w', 'a', 'x']
is_opening_for_writing(call) == open_mode_of(call) \in {<<"w">>, <<"a">>, <<"x">>}

\* the genuine builtins.open: returns a file object for the call, or fails
builtin_open(call, base) ==
    IF base = "ok" THEN Return("file", call) ELSE Raise("FileNotFoundError", call)

RECURSIVE InvokeOpen(_, _, _)

\* open_wrapper testing the truth of the allow-lists (`if allowed_write_files and ...`),
\* which takes an empty list for None
open_wrapper_truthy(c, original_open, call, base) ==
    LET file_name == file_name_of(call)
        writing == is_opening_for_writing(call)
    IN  IF writing /\ c.allowed_write_files.items # <<>>
                   /\ ~InList(file_name, c.allowed_write_files.items)
        THEN Raise("CodeWriteForbiddenFile", file_name)
        ELSE IF ~writing /\ c.allowed_read_files.items # <<>>
                         /\ ~InList(file_name, c.allowed_read_files.items)
        THEN Raise("CodeReadForbiddenFile", file_name)
        ELSE Via(original_open, call, InvokeOpen(original_open, call, base))

\* open_wrapper(*args, **kwargs) of the guard whose closure is c and whose
\* captured original_open is the callable original_open
open_wrapper(c, original_open, call, base) ==
    LET file_name == file_name_of(call)
        writing == is_opening_for_writing(call)
    IN  IF writing /\ ~c.allowed_write_files.isNone
                   /\ ~InList(file_name, c.allowed_write_files.items)
        THEN Raise("CodeWriteForbiddenFile", file_name)
        ELSE IF ~writing /\ ~c.allowed_read_files.isNone
                         /\ ~InList(file_name, c.allowed_read_files.items)
        THEN Raise("CodeReadForbiddenFile", file_name)
        ELSE Via(original_open, call, InvokeOpen(original_open, call, base))

\* calling whatever builtins.open currently holds
InvokeOpen(f, call, base) ==
    IF f = <<>> THEN builtin_open(call, base)
    ELSE open_wrapper(Head(f), Tail(f), call, base)

------------------------------------------------------------------------------
(* prevent_calling *)

Ops == {"f1", "f2"}       \* operations their owner has
MissingOp == "nope"       \* an operation name the owner does not have

\* modules_and_functions: the lists of (owner, operation-name) pairs, by operation name
PairLists == {<<>>, <<"f1">>, <<"f1", "f2">>, <<"f1", "f1">>, <<"f1", MissingOp>>}

CallArgs == {<<>>, <<"x">>}

\* the genuine owner.op
builtin_function(op, args, base) ==
    IF base = "ok" THEN Return("value", <<op>> \o args) ELSE Raise("ValueError", <<op>> \o args)

RECURSIVE InvokeFunction(_, _, _, _, _)

\* upon_called without the test of the calling frame
upon_called_any_caller(c, original_func, op, args, caller, base) ==
    Raise("CodeUsesForbiddenFunctions", <<c.func_name>>)

\* upon_called(*args, **kwargs) of the closure c = get_upon_called(func_name, original_func)
upon_called(c, original_func, op, args, caller, base) ==
    IF Attributed(caller)
    THEN Raise("CodeUsesForbiddenFunctions", <<c.func_name>>)
    ELSE Via(original_func, args, InvokeFunction(original_func, op, args, RunContextFile, base))

\* calling whatever owner.op currently holds, from a frame of file caller
InvokeFunction(f, op, args, caller, base) ==
    IF f = <<>> THEN builtin_function(op, args, base)
    ELSE upon_called(Head(f), Tail(f), op, args, caller, base)

\* get_upon_called(function_name, original_function), made by guard instance g for list entry i
get_upon_called(g, i, func_name) == [kind |-> "upon_called", g |-> g, i |-> i, func_name |-> func_name]

\* for module, function_name in modules_and_functions: getattr, append, setattr.
\* getattr raises AttributeError for a name the owner does not have; the loop
\* stops there, with the patches made so far in place.
RECURSIVE PatchLoop(_, _, _, _, _)
PatchLoop(e, pairs, i, g, original_functions) ==
    IF i > Len(pairs)
    THEN [env |-> e, original_functions |-> original_functions, failed |-> FALSE]
    ELSE IF pairs[i] = MissingOp
    THEN [env |-> e, original_functions |-> original_functions, failed |-> TRUE]
    ELSE PatchLoop([e EXCEPT ![pairs[i]] = <<get_upon_called(g, i, pairs[i])>> \o e[pairs[i]]],
                   pairs, i + 1, g, Append(original_functions, e[pairs[i]]))

\* finally: for module, function_name in modules_and_functions:
\*              setattr(module, function_name, original_functions.pop(0))
RECURSIVE RestoreLoop(_, _, _)
RestoreLoop(e, pairs, original_functions) ==
    IF pairs = <<>> THEN e
    ELSE RestoreLoop([e EXCEPT ![Head(pairs)] = Head(original_functions)],
                     Tail(pairs), Tail(original_functions))

------------------------------------------------------------------------------
(* PreventImport *)

mod_os == <<"o", "s">>
mod_osx == <<"o", "s", "x">>
mod_os_path == <<"o", "s", ".", "p">>
mod_re == <<"r", "e">>

ModuleNames == {mod_os, mod_osx, mod_os_path, mod_re}
ModuleLists == {<<mod_os>>, <<mod_os, mod_re>>}

\* the genuine builtins.__import__
builtin_import(name, base) ==
    IF base = "ok" THEN Return("module", name) ELSE Raise("ModuleNotFoundError", name)

\* the test without the dot: name.startswith(module)
is_forbidden_module_no_dot(name, modules) ==
    \E i \in 1..Len(modules) : StartsWith(name, modules[i])

\* any(name.startswith(module + '.') for module in self.modules) or name in self.modules
is_forbidden_module(name, modules) ==
    \/ \E i \in 1..Len(modules) : StartsWith(name, modules[i] \o <<".">>)
    \/ InList(name, modules)

RECURSIVE InvokeImport(_, _, _, _)

\* PreventImport.custom_import(self, name, *args, **kwargs)
custom_import(c, original_import, name, caller, base) ==
    IF is_forbidden_module(name, c.modules) /\ Attributed(caller)
    THEN Raise("CodeImportForbiddenModule", name)
    ELSE Via(original_import, name, InvokeImport(original_import, name, RunContextFile, base))

\* calling whatever builtins.__import__ currently holds, from a frame of file caller
InvokeImport(f, name, caller, base) ==
    IF f = <<>> THEN builtin_import(name, base)
    ELSE custom_import(Head(f), Tail(f), name, caller, base)

------------------------------------------------------------------------------
(* Entering and leaving a guard.  A frame records what the guard instance  *)
(* saved (original_open, original_functions, original_import) and, for     *)
(* observation only, pre: the operations as they were just before entry.   *)

\* prevent_file_open wrapping the genuine open instead of the current builtins.open
prevent_file_open_enter_over_builtin(e, g, allowed_read_files, allowed_write_files) ==
    [env   |-> [e EXCEPT !.open = <<[kind |-> "open_wrapper", g |-> g,
                                     allowed_read_files |-> allowed_read_files,
                                     allowed_write_files |-> allowed_write_files]>>],
     frame |-> [kind |-> "prevent_file_open", g |-> g, slots |-> <<"open">>,
                original_open |-> e.open, pre |-> e,
                allowed_read_files |-> allowed_read_files,
                allowed_write_files |-> allowed_write_files]]

\* prevent_file_open, up to the yield (the allow-lists in the frame are
\* observation only)
prevent_file_open_enter(e, g, allowed_read_files, allowed_write_files) ==
    [env   |-> [e EXCEPT !.open = <<[kind |-> "open_wrapper", g |-> g,
                                     allowed_read_files |-> allowed_read_files,
                                     allowed_write_files |-> allowed_write_files]>> \o e.open],
     frame |-> [kind |-> "prevent_file_open", g |-> g, slots |-> <<"open">>,
                original_open |-> e.open, pre |-> e,
                allowed_read_files |-> allowed_read_files,
                allowed_write_files |-> allowed_write_files]]

\* the finally clause left out
prevent_file_open_exit_missing(e, fr) == e

\* prevent_file_open, the finally clause
prevent_file_open_exit(e, fr) == [e EXCEPT !.open = fr.original_open]

\* prevent_calling, up to the yield (failed: getattr raised before the try was reached)
prevent_calling_enter(e, g, modules_and_functions) ==
    LET done == PatchLoop(e, modules_and_functions, 1, g, <<>>)
    IN  [env    |-> done.env,
         failed |-> done.failed,
         frame  |-> [kind |-> "prevent_calling", g |-> g, slots |-> modules_and_functions,
                     original_functions |-> done.original_functions, pre |-> e]]

\* prevent_calling, the finally clause
prevent_calling_exit(e, fr) == RestoreLoop(e, fr.slots, fr.original_functions)

\* PreventImport.__enter__
PreventImport_enter(e, g, modules) ==
    [env   |-> [e EXCEPT !.import = <<[kind |-> "custom_import", g |-> g, modules |-> modules]>>
                                     \o e.import],
     frame |-> [kind |-> "PreventImport", g |-> g, slots |-> <<"import">>,
                original_import |-> e.import, pre |-> e]]

\* PreventImport.__exit__: the assignment
PreventImport_exit(e, fr) == [e EXCEPT !.import = fr.original_import]

\* the operations after the guard of frame fr has left its scope
ExitEnv(e, fr) ==
    CASE fr.kind = "prevent_file_open" -> prevent_file_open_exit(e, fr)
      [] fr.kind = "prevent_calling" -> prevent_calling_exit(e, fr)
      [] fr.kind = "PreventImport" -> PreventImport_exit(e, fr)

\* Whether leaving the scope swallows the error in flight: the generators
\* have try/finally and no except, __exit__ returns None.
exit_suppresses(fr) == FALSE

\* callers of builtins.open (open_wrapper does not look at its caller)
OpenCallers == {SandboxFile, FrameworkFile}

Top == stack[Len(stack)]
Pop == SubSeq(stack, 1, Len(stack) - 1)

------------------------------------------------------------------------------
(* The run: trusted code enters guards as a stack, the body calls the      *)
(* patched operations from the sandboxed unit or from trusted code, an     *)
(* error unwinds the guards innermost first until some handler catches it. *)

BodyErrors == {[type |-> "ZeroDivisionError", detail |-> <<>>],
               [type |-> "KeyboardInterrupt", detail |-> <<>>]}

InitGuards ==
    /\ env = [open |-> <<>>, import |-> <<>>, f1 |-> <<>>, f2 |-> <<>>]
    /\ stack = <<>>
    /\ nguards = 0
    /\ pc = "running"
    /\ exc = NoExc
    /\ last = [op |-> "init"]

CanEnter == pc = "running" /\ nguards < MaxGuards

EnterFileOpen(ar, aw) ==
    /\ CanEnter
    /\ LET r == prevent_file_open_enter(env, nguards + 1, ar, aw)
       IN  /\ env' = r.env
           /\ stack' = Append(stack, r.frame)
           /\ last' = [op |-> "enter", frame |-> r.frame, failed |-> FALSE]
    /\ nguards' = nguards + 1
    /\ UNCHANGED <<pc, exc, skVars, cmVars>>

EnterPreventCalling(pairs) ==
    /\ CanEnter
    /\ LET r == prevent_calling_enter(env, nguards + 1, pairs)
       IN  /\ env' = r.env
           /\ last' = [op |-> "enter", frame |-> r.frame, failed |-> r.failed]
           /\ IF r.failed
              THEN /\ stack' = stack
                   /\ pc' = "raising"
                   /\ exc' = [type |-> "AttributeError", detail |-> <<MissingOp>>]
              ELSE /\ stack' = Append(stack, r.frame)
                   /\ UNCHANGED <<pc, exc>>
    /\ nguards' = nguards + 1
    /\ UNCHANGED <<skVars, cmVars>>

EnterPreventImport(modules) ==
    /\ CanEnter
    /\ LET r == PreventImport_enter(env, nguards + 1, modules)
       IN  /\ env' = r.env
           /\ stack' = Append(stack, r.frame)
           /\ last' = [op |-> "enter", frame |-> r.frame, failed |-> FALSE]
    /\ nguards' = nguards + 1
    /\ UNCHANGED <<pc, exc, skVars, cmVars>>

\* the outcome of a call made by the body: a raised error is in flight
Outcome(r) ==
    IF r.kind = "raise"
    THEN pc' = "raising" /\ exc' = Err(r)
    ELSE pc' = "returned" /\ exc' = exc

CallOpen(call, caller, base) ==
    /\ pc = "running"
    /\ LET r == InvokeOpen(env.open, call, base)
       IN  /\ last' = [op |-> "open", target |-> env.open, args |-> call, caller |-> caller,
                       base |-> base, result |-> r]
           /\ Outcome(r)
    /\ UNCHANGED <<env, stack, nguards, skVars, cmVars>>

CallFunction(op, args, caller, base) ==
    /\ pc = "running"
    /\ LET r == InvokeFunction(env[op], op, args, caller, base)
       IN  /\ last' = [op |-> "call", target |-> env[op], name |-> op, args |-> args,
                       caller |-> caller, base |-> base, result |-> r]
           /\ Outcome(r)
    /\ UNCHANGED <<env, stack, nguards, skVars, cmVars>>

Import(name, caller, base) ==
    /\ pc = "running"
    /\ LET r == InvokeImport(env.import, name, caller, base)
       IN  /\ last' = [op |-> "import", target |-> env.import, args |-> name, caller |-> caller,
                       base |-> base, result |-> r]
           /\ Outcome(r)
    /\ UNCHANGED <<env, stack, nguards, skVars, cmVars>>

\* the body goes on after a call that returned
Resume ==
    /\ pc = "returned"
    /\ pc' = "running"
    /\ last' = [op |-> "resume"]
    /\ UNCHANGED <<env, stack, nguards, exc, skVars, cmVars>>

\* the body raises an error of its own
BodyRaise(e) ==
    /\ pc = "running"
    /\ stack # <<>>
    /\ pc' = "raising"
    /\ exc' = e
    /\ last' = [op |-> "raise", error |-> e]
    /\ UNCHANGED <<env, stack, nguards, skVars, cmVars>>

\* the body of the innermost guard returns
ExitNormal ==
    /\ pc = "running"
    /\ stack # <<>>
    /\ env' = ExitEnv(env, Top)
    /\ stack' = Pop
    /\ last' = [op |-> "exit", path |-> "return", frame |-> Top, outer |-> Len(stack) = 1,
                excIn |-> NoExc, excOut |-> NoExc, post |-> ExitEnv(env, Top)]
    /\ UNCHANGED <<nguards, pc, exc, skVars, cmVars>>

\* the error in flight leaves the scope of the innermost guard
ExitRaise ==
    /\ pc = "raising"
    /\ stack # <<>>
    /\ env' = ExitEnv(env, Top)
    /\ stack' = Pop
    /\ exc' = IF exit_suppresses(Top) THEN NoExc ELSE exc
    /\ pc' = IF exit_suppresses(Top) THEN "running" ELSE "raising"
    /\ last' = [op |-> "exit", path |-> "raise", frame |-> Top, outer |-> Len(stack) = 1,
                excIn |-> exc, excOut |-> exc', post |-> ExitEnv(env, Top)]
    /\ UNCHANGED <<nguards, skVars, cmVars>>

\* a handler (in the body, between two guards, or the caller of the stack) catches the error
Catch ==
    /\ pc = "raising"
    /\ pc' = "running"
    /\ exc' = NoExc
    /\ last' = [op |-> "catch"]
    /\ UNCHANGED <<env, stack, nguards, skVars, cmVars>>

------------------------------------------------------------------------------
(* override_sklearn.py.  The engine that installs and removes the wrappers *)
(* (SystematicMethodReplacerContext, attr_replacers.py) and its attribution *)
(* query _is_called_from_data_to_paper are not part of the sources; they   *)
(* are modelled from sections 4.1 and 4.5 of the specification.            *)

attr_fit == <<"f", "i", "t">>
attr_fit_transform == <<"f", "i", "t", "_", "t">>
attr_predict == <<"p", "r", "e", "d">>
Methods == {attr_fit, attr_fit_transform, attr_predict}

Objs == {"est1", "est2"}
SkCallers == {SandboxFile, FrameworkFile}

\* SklearnOverride._should_replace: attr_name.startswith('fit')
SklearnOverride_should_replace(attr_name) == StartsWith(attr_name, attr_fit)

\* engine, enter: the attributes of the target classes that the predicate selects
ReplacedAttrs == {a \in Methods : SklearnOverride_should_replace(a)}

\* OriginFilter: the call comes from the sandboxed unit
is_called_from_data_to_paper(caller) == caller = SandboxFile

\* Result instances.  fit returns the estimator itself, the same instance at
\* every call; fit_transform returns a new array at every call; 0 is "no
\* _prior_fit_results attribute".
NoMarker == 0
SelfInstance == 1
original_func(o, attr_name, base) ==
    IF base # "ok" THEN Raise("ValueError", attr_name)
    ELSE IF attr_name = attr_fit THEN Return("instance", SelfInstance)
    ELSE Return("instance", SelfInstance + 1 + o.calls)

\* wrapped storing the marker outside the `if self._is_called_from_data_to_paper()`
SklearnOverride_wrapped_always_marks(o, attr_name, caller, base) ==
    LET result == original_func(o, attr_name, base)
    IN  IF result.kind = "raise" THEN [result |-> result, prior |-> o.prior]
        ELSE IF is_called_from_data_to_paper(caller) /\ o.prior # NoMarker /\ o.prior = result.detail
        THEN [result |-> Raise("RuntimeWarning", attr_name), prior |-> o.prior]
        ELSE [result |-> result, prior |-> result.detail]

\* SklearnOverride._get_custom_wrapper.wrapped(obj, *args, **kwargs), on an
\* object whose marker is o.prior: the result, and the marker afterwards
SklearnOverride_wrapped(o, attr_name, caller, base) ==
    LET result == original_func(o, attr_name, base)
    IN  IF result.kind = "raise" THEN [result |-> result, prior |-> o.prior]
        ELSE IF is_called_from_data_to_paper(caller)
        THEN IF o.prior # NoMarker /\ o.prior = result.detail
             THEN [result |-> Raise("RuntimeWarning", attr_name), prior |-> o.prior]
             ELSE [result |-> result, prior |-> result.detail]
        ELSE [result |-> result, prior |-> o.prior]

\* The frames inspect.stack() returns, innermost first.  A frame is what
\* _get_estimator_class_name reads of it: whether its locals hold 'self',
\* whether that instance has a fit attribute, whether it has an estimator
\* attribute, and the class name of that estimator.
NoSelfFrame == [has_self |-> FALSE, has_fit |-> FALSE, has_estimator |-> FALSE, cls |-> ""]
PolicyFrame == [has_self |-> TRUE, has_fit |-> FALSE, has_estimator |-> FALSE, cls |-> ""]
SearchFrame == [has_self |-> TRUE, has_fit |-> TRUE, has_estimator |-> TRUE, cls |-> "Ridge"]
FitOnlyFrame == [has_self |-> TRUE, has_fit |-> TRUE, has_estimator |-> FALSE, cls |-> ""]

RECURSIVE StacksUpTo(_)
StacksUpTo(n) ==
    IF n = 0 THEN {<<>>}
    ELSE LET shorter == StacksUpTo(n - 1)
         IN  shorter \cup {Append(st, f) : st \in shorter, f \in {NoSelfFrame, SearchFrame, FitOnlyFrame}}

CallerStacks == StacksUpTo(MaxStack)

\* the frames of _get_estimator_class_name itself and of wrapped (both hold the
\* policy instance as self), then the caller's
FullStack(callerStack) == <<PolicyFrame, PolicyFrame>> \o callerStack

\* SklearnSearchLimitCheck._get_estimator_class_name
RECURSIVE get_estimator_class_name(_)
get_estimator_class_name(frames) ==
    IF frames = <<>> THEN Return("str", "Unknown")
    ELSE IF Head(frames).has_self /\ Head(frames).has_fit
    THEN IF Head(frames).has_estimator
         THEN Return("str", Head(frames).cls)
         ELSE Raise("AttributeError", "estimator")
    ELSE get_estimator_class_name(Tail(frames))

\* max_iterations: int = 12
max_iterations_default == 12
MaxIterationsChoices == {2, max_iterations_default}

\* max_layers: int = 2, max_neurons_per_layer: int = 50
max_layers_default == 2
max_neurons_per_layer_default == 50

\* SklearnSearchLimitCheck._get_custom_wrapper.wrapped(obj), original_len being
\* what the original __len__ computes
SklearnSearchLimitCheck_wrapped(original_len, max_iterations, callerStack) ==
    IF original_len > max_iterations
    THEN LET estimator_class_name == get_estimator_class_name(FullStack(callerStack))
         IN  IF estimator_class_name.kind = "raise" THEN estimator_class_name
             ELSE Raise("RuntimeWarning", [original_len |-> original_len,
                                           estimator_class_name |-> estimator_class_name.detail,
                                           max_iterations |-> max_iterations])
    ELSE Return("int", original_len)

NewObj == [prior |-> NoMarker, calls |-> 0, sandboxed |-> 0, other |-> FALSE]

InitSk ==
    /\ sk = [replaced |-> {}, len_replaced |-> FALSE, max_iterations |-> max_iterations_default,
             objs |-> [o \in Objs |-> NewObj],
             init_replaced |-> FALSE, nn_replaced |-> FALSE,
             max_layers |-> max_layers_default,
             max_neurons_per_layer |-> max_neurons_per_layer_default]
    /\ skLast = [op |-> "init"]

\* engine, enter of SklearnOverride
EnterSklearnOverride ==
    /\ sk.replaced = {}
    /\ sk' = [sk EXCEPT !.replaced = ReplacedAttrs]
    /\ skLast' = [op |-> "enter"]
    /\ UNCHANGED <<guardVars, cmVars>>

\* engine, exit of SklearnOverride
ExitSklearnOverride ==
    /\ sk.replaced # {}
    /\ sk' = [sk EXCEPT !.replaced = {}]
    /\ skLast' = [op |-> "exit"]
    /\ UNCHANGED <<guardVars, cmVars>>

\* obj.attr_name(...) called from a frame of file caller.  Observation only:
\* calls counts the calls on the object, sandboxed those of them that the
\* wrapper saw coming from the sandboxed unit and that returned a result,
\* other whether one of these returned something else than the object itself.
CallMethod(obj, attr_name, caller, base) ==
    /\ sk.objs[obj].calls < MaxCalls
    /\ LET o == sk.objs[obj]
           is_wrapped == attr_name \in sk.replaced
           w == IF is_wrapped THEN SklearnOverride_wrapped(o, attr_name, caller, base)
                ELSE [result |-> original_func(o, attr_name, base), prior |-> o.prior]
           produced == is_wrapped /\ is_called_from_data_to_paper(caller) /\ base = "ok"
       IN  /\ sk' = [sk EXCEPT !.objs[obj] =
                        [prior |-> w.prior,
                         calls |-> o.calls + 1,
                         sandboxed |-> o.sandboxed + (IF produced THEN 1 ELSE 0),
                         other |-> o.other \/ (produced /\ attr_name # attr_fit)]]
           /\ skLast' = [op |-> "method", obj |-> obj, attr_name |-> attr_name, caller |-> caller,
                         base |-> base, is_wrapped |-> is_wrapped, before |-> o, result |-> w.result]
    /\ UNCHANGED <<guardVars, cmVars>>

\* engine, enter of SklearnSearchLimitCheck(max_iterations = m)
EnterSearchLimitCheck(m) ==
    /\ ~sk.len_replaced
    /\ sk' = [sk EXCEPT !.len_replaced = TRUE, !.max_iterations = m]
    /\ skLast' = [op |-> "enter"]
    /\ UNCHANGED <<guardVars, cmVars>>

\* engine, exit of SklearnSearchLimitCheck
ExitSearchLimitCheck ==
    /\ sk.len_replaced
    /\ sk' = [sk EXCEPT !.len_replaced = FALSE]
    /\ skLast' = [op |-> "exit"]
    /\ UNCHANGED <<guardVars, cmVars>>

\* len(ParameterGrid(...)) of computed size n, with the caller's frames callerStack
CallLen(n, callerStack) ==
    /\ skLast' = [op |-> "len", n |-> n, callerStack |-> callerStack,
                  is_wrapped |-> sk.len_replaced, max_iterations |-> sk.max_iterations,
                  result |-> IF sk.len_replaced
                             THEN SklearnSearchLimitCheck_wrapped(n, sk.max_iterations, callerStack)
                             ELSE Return("int", n)]
    /\ UNCHANGED <<sk, guardVars, cmVars>>

\* ---- SklearnRandomStateOverride ----

\* _get_all_parents: the classes whose constructor is replaced
RandomStateParents == {"RandomForestRegressor", "ElasticNet", "MLPRegressor"}

\* SklearnRandomStateOverride._should_replace
SklearnRandomStateOverride_should_replace(attr_name) == attr_name = "__init__"

\* kwargs['random_state'] = 0
fixed_random_state == 0

\* the seeds a caller passes
Seeds == {0, 42}

\* positional arguments of a constructor call (n_estimators, alpha, ...)
CtorArgs == {<<>>, <<100>>}

\* keyword arguments of a constructor call: any of random_state, max_iter
CtorKwargs ==
    {NoKw}
    \cup {[k \in {"random_state"} |-> sd] : sd \in Seeds}
    \cup {[k \in {"max_iter"} |-> 500]}
    \cup {[k \in {"random_state", "max_iter"} |-> IF k = "random_state" THEN sd ELSE 500] : sd \in Seeds}

\* kwargs[key] = value
KwSet(kwargs, key, value) ==
    [k \in DOMAIN kwargs \cup {key} |-> IF k = key THEN value ELSE kwargs[k]]

\* the original constructor of class parent: it receives args and kwargs, and
\* returns None or fails
original_init(parent, args, kwargs, base) ==
    IF base = "ok" THEN Return("None", [parent |-> parent, args |-> args, kwargs |-> kwargs])
    ELSE Raise("ValueError", [parent |-> parent, args |-> args, kwargs |-> kwargs])

\* wrapped setting random_state whatever the caller passed
SklearnRandomStateOverride_wrapped_always_sets(parent, args, kwargs, base) ==
    original_init(parent, args, KwSet(kwargs, "random_state", fixed_random_state), base)

\* SklearnRandomStateOverride._get_custom_wrapper.wrapped(obj, *args, **kwargs)
SklearnRandomStateOverride_wrapped(parent, args, kwargs, base) ==
    LET kwargs1 == IF "random_state" \notin DOMAIN kwargs
                   THEN KwSet(kwargs, "random_state", fixed_random_state)
                   ELSE kwargs
    IN  original_init(parent, args, kwargs1, base)

\* engine, enter of SklearnRandomStateOverride
EnterRandomStateOverride ==
    /\ ~sk.init_replaced
    /\ SklearnRandomStateOverride_should_replace("__init__")
    /\ sk' = [sk EXCEPT !.init_replaced = TRUE]
    /\ skLast' = [op |-> "enter"]
    /\ UNCHANGED <<guardVars, cmVars>>

\* engine, exit of SklearnRandomStateOverride
ExitRandomStateOverride ==
    /\ sk.init_replaced
    /\ sk' = [sk EXCEPT !.init_replaced = FALSE]
    /\ skLast' = [op |-> "exit"]
    /\ UNCHANGED <<guardVars, cmVars>>

\* parent(*args, **kwargs) for one of the targeted classes
ConstructModel(parent, args, kwargs, base) ==
    /\ skLast' = [op |-> "construct", parent |-> parent, args |-> args, kwargs |-> kwargs,
                  base |-> base, is_wrapped |-> sk.init_replaced,
                  result |-> IF sk.init_replaced
                             THEN SklearnRandomStateOverride_wrapped(parent, args, kwargs, base)
                             ELSE original_init(parent, args, kwargs, base)]
    /\ UNCHANGED <<sk, guardVars, cmVars>>

\* ---- SklearnNNSizeOverride ----

\* _get_all_parents: the classes whose constructor is replaced
NNParents == {"MLPRegressor", "MLPClassifier"}

\* SklearnNNSizeOverride._should_replace
SklearnNNSizeOverride_should_replace(attr_name) == attr_name = "__init__"

\* the (max_layers, max_neurons_per_layer) a policy is configured with
NNLimits == {<<max_layers_default, max_neurons_per_layer_default>>, <<2, 30>>, <<3, 100>>}

\* hidden_layer_sizes as callers pass it
LayerConfigs == {<<30, 40>>, <<30, 40, 10>>, <<30, 60>>, <<40>>, <<60, 60, 60>>, <<>>}

\* the hidden_layer_sizes of an instance built with no arguments
default_hidden_layer_sizes == <<100>>

\* constructor calls: the layers by keyword, the layers as the first
\* positional argument, no layers at all
NNCalls ==
    {[args |-> <<>>, kwargs |-> [k \in {"hidden_layer_sizes"} |-> h]] : h \in LayerConfigs}
    \cup {[args |-> <<h>>, kwargs |-> NoKw] : h \in LayerConfigs}
    \cup {[args |-> <<>>, kwargs |-> NoKw]}

\* if layer_size > 50
layer_size_limit == 50

\* the first layer (counted from 0, as enumerate does) larger than limit, or -1
RECURSIVE first_large_layer(_, _, _)
first_large_layer(hidden_layer_sizes, layer, limit) ==
    IF layer >= Len(hidden_layer_sizes) THEN -1
    ELSE IF hidden_layer_sizes[layer + 1] > limit THEN layer
    ELSE first_large_layer(hidden_layer_sizes, layer + 1, limit)

\* SklearnNNSizeOverride._get_custom_wrapper.wrapped(obj, *args, **kwargs) of
\* a policy with limits max_layers, max_neurons_per_layer, running at depth
\* nested calls of itself.  parent() at line 128 builds an instance through
\* parent.__init__, which is this wrapper while the policy is active; the
\* interpreter ends the nesting with RecursionError.
RECURSIVE SklearnNNSizeOverride_wrapped(_, _, _, _, _, _)
SklearnNNSizeOverride_wrapped(parent, call, max_layers, max_neurons_per_layer, base, depth) ==
    IF depth > MaxRecursion THEN Raise("RecursionError", depth)
    ELSE
    LET built == SklearnNNSizeOverride_wrapped(parent, [args |-> <<>>, kwargs |-> NoKw],
                                               max_layers, max_neurons_per_layer, "ok", depth + 1)
        hidden_layer_sizes ==
            IF "hidden_layer_sizes" \in DOMAIN call.kwargs
            THEN Return("tuple", call.kwargs["hidden_layer_sizes"])
            ELSE IF built.kind = "raise" THEN built
            ELSE Return("tuple", default_hidden_layer_sizes)
    IN  IF hidden_layer_sizes.kind = "raise" THEN hidden_layer_sizes
        ELSE LET h == hidden_layer_sizes.detail
                 layer == first_large_layer(h, 0, layer_size_limit)
             IN  IF Len(h) > max_layers
                 THEN Raise("RuntimeWarning",
                            [text |-> "hidden_layer_sizes is too large", given |-> Len(h),
                             max_layers |-> max_layers,
                             max_neurons_per_layer |-> max_neurons_per_layer])
                 ELSE IF layer >= 0
                 THEN Raise("RuntimeWarning",
                            [text |-> "layer with too many neurons", given |-> layer,
                             max_layers |-> max_layers,
                             max_neurons_per_layer |-> max_neurons_per_layer])
                 ELSE Via("__init__", call, original_init(parent, call.args, call.kwargs, base))

\* engine, enter of SklearnNNSizeOverride(max_layers, max_neurons_per_layer)
EnterNNSizeOverride(limits) ==
    /\ ~sk.nn_replaced
    /\ SklearnNNSizeOverride_should_replace("__init__")
    /\ sk' = [sk EXCEPT !.nn_replaced = TRUE, !.max_layers = limits[1],
                        !.max_neurons_per_layer = limits[2]]
    /\ skLast' = [op |-> "enter"]
    /\ UNCHANGED <<guardVars, cmVars>>

\* engine, exit of SklearnNNSizeOverride
ExitNNSizeOverride ==
    /\ sk.nn_replaced
    /\ sk' = [sk EXCEPT !.nn_replaced = FALSE]
    /\ skLast' = [op |-> "exit"]
    /\ UNCHANGED <<guardVars, cmVars>>

\* parent(*args, **kwargs) for MLPRegressor or MLPClassifier
ConstructNN(parent, call, base) ==
    /\ skLast' = [op |-> "construct_nn", parent |-> parent, call |-> call, base |-> base,
                  is_wrapped |-> sk.nn_replaced,
                  max_layers |-> sk.max_layers,
                  max_neurons_per_layer |-> sk.max_neurons_per_layer,
                  result |-> IF sk.nn_replaced
                             THEN SklearnNNSizeOverride_wrapped(parent, call, sk.max_layers,
                                                                sk.max_neurons_per_layer, base, 1)
                             ELSE Via("__init__", call,
                                      original_init(parent, call.args, call.kwargs, base))]
    /\ UNCHANGED <<sk, guardVars, cmVars>>

\* ---- ConversationManager ----
\* A conversation is the sequence of its messages; message i of the code
\* (counted from 0) is element i + 1.  The Conversation, Message and Action
\* classes are outside the repository's sources given here: what the manager
\* calls of them is modelled by what the manager's code relies on.

ConversationNames == {"None", "aux"}     \* None is the default conversation
Roles == {"system", "user", "commenter"}
NoTag == "None"
Tags == {NoTag, "t"}

Message(role, content, tag) == [role |-> role, content |-> content, tag |-> tag]
NoMessage == Message("none", "", NoTag)

\* an Action: its class, and the fields the manager's code sets
MakeAction(type, message, hidden_messages, message_designation, tag, exception) ==
    [type |-> type, message |-> message, hidden_messages |-> hidden_messages,
     message_designation |-> message_designation, tag |-> tag, exception |-> exception]
AppendMessage(message) == MakeAction("AppendMessage", message, <<>>, <<>>, NoTag, "")
DeleteMessages(message_designation) ==
    MakeAction("DeleteMessages", NoMessage, <<>>, message_designation, NoTag, "")
ResetToTag(tag) == MakeAction("ResetToTag", NoMessage, <<>>, <<>>, tag, "")
AppendChatgptResponse(hidden_messages, message) ==
    MakeAction("AppendChatgptResponse", message, hidden_messages, <<>>, NoTag, "")
FailedChatgptResponse(hidden_messages, exception) ==
    MakeAction("FailedChatgptResponse", NoMessage, hidden_messages, <<>>, NoTag, exception)
RegenerateLastResponse(hidden_messages, message) ==
    MakeAction("RegenerateLastResponse", message, hidden_messages, <<>>, NoTag, "")

\* isinstance(action, AppendChatgptResponse): RegenerateLastResponse is a subclass
IsAppendChatgptResponse(action) ==
    action.type \in {"AppendChatgptResponse", "RegenerateLastResponse"}

ConversationNameAndAction(name, action) == [name |-> name, action |-> action]

\* index (counted from 0, -1 being the last) designates message i of a
\* conversation of n messages
Designates(index, i, n) == index = i \/ (index < 0 /\ index + n = i)
IsHidden(hidden_messages, i, n) ==
    \E j \in 1..Len(hidden_messages) : Designates(hidden_messages[j], i, n)

\* Conversation.get_chosen_indices_and_messages(hidden_messages): the indices
\* of the messages sent to the language model, from index i on
RECURSIVE get_chosen_indices(_, _, _)
get_chosen_indices(conversation, hidden_messages, i) ==
    IF i >= Len(conversation) THEN <<>>
    ELSE LET rest == get_chosen_indices(conversation, hidden_messages, i + 1)
         IN  IF conversation[i + 1].role = "commenter"
                \/ IsHidden(hidden_messages, i, Len(conversation))
             THEN rest ELSE <<i>> \o rest

\* the last message (counted from 1) carrying tag, 0 when there is none
RECURSIVE last_with_tag(_, _, _)
last_with_tag(conversation, tag, k) ==
    IF k = 0 THEN 0
    ELSE IF conversation[k].tag = tag THEN k
    ELSE last_with_tag(conversation, tag, k - 1)

RECURSIVE without_designated(_, _, _)
without_designated(conversation, message_designation, i) ==
    IF i >= Len(conversation) THEN <<>>
    ELSE LET rest == without_designated(conversation, message_designation, i + 1)
         IN  IF IsHidden(message_designation, i, Len(conversation))
             THEN rest ELSE <<conversation[i + 1]>> \o rest

\* action.apply(conversation)
apply(action, conversation) ==
    IF action.type \in {"AppendMessage", "AppendChatgptResponse"}
    THEN Append(conversation, action.message)
    ELSE IF action.type = "RegenerateLastResponse"
    THEN Append(SubSeq(conversation, 1, Len(conversation) - 1), action.message)
    ELSE IF action.type = "DeleteMessages"
    THEN without_designated(conversation, action.message_designation, 0)
    ELSE IF action.type = "ResetToTag"
    THEN SubSeq(conversation, 1, last_with_tag(conversation, action.tag, Len(conversation)))
    ELSE conversation

\* the result of a manager call: the manager afterwards and what the call
\* returned or raised
Done(c, result) == [cm |-> c, result |-> result]

\* ConversationManager.create_conversation
create_conversation(c, conversation_name) ==
    [c EXCEPT !.conversations =
        [n \in DOMAIN c.conversations \cup {conversation_name} |->
            IF n = conversation_name THEN <<>> ELSE c.conversations[n]]]

\* ConversationManager._append_and_apply_action: the pair is appended to
\* conversation_names_and_actions, then the conversation is looked up
\* (KeyError when there is none of that name) and the action applied.  The
\* field applied is an observation: the pairs whose action.apply(...) ran.
append_and_apply_action(c, action, conversation_name) ==
    LET pair == ConversationNameAndAction(conversation_name, action)
        recorded == [c EXCEPT !.conversation_names_and_actions = Append(@, pair)]
    IN  IF conversation_name \notin DOMAIN c.conversations
        THEN Done(recorded, Raise("KeyError", conversation_name))
        ELSE Done([recorded EXCEPT !.conversations[conversation_name] = apply(action, @),
                                   !.applied = Append(@, pair)],
                  Return("None", ""))

\* ConversationManager.append_message
append_message(c, role, content, tag, conversation_name) ==
    append_and_apply_action(c, AppendMessage(Message(role, content, tag)), conversation_name)

\* ConversationManager.reset_back_to_tag
reset_back_to_tag(c, tag, conversation_name) ==
    append_and_apply_action(c, ResetToTag(tag), conversation_name)

\* ConversationManager.delete_messages
delete_messages(c, message_designation, conversation_name) ==
    append_and_apply_action(c, DeleteMessages(message_designation), conversation_name)

\* Conversation.try_get_chatgpt_response(hidden_messages): the content of the
\* response, or the exception of the failed request (returned, not raised)
ApiOutcomes == {"ok", "fail"}
try_get_chatgpt_response(outcome) ==
    IF outcome = "ok" THEN Return("str", "response") ELSE Return("Exception", "openai error")

\* ConversationManager.try_get_and_append_chatgpt_response
try_get_and_append_chatgpt_response(c, tag, conversation_name, hidden_messages, outcome) ==
    IF conversation_name \notin DOMAIN c.conversations
    THEN Done(c, Raise("KeyError", conversation_name))
    ELSE LET content == try_get_chatgpt_response(outcome)
             action == IF content.type = "Exception"
                       THEN FailedChatgptResponse(hidden_messages, content.detail)
                       ELSE AppendChatgptResponse(hidden_messages,
                                                  Message("assistant", content.detail, tag))
             r == append_and_apply_action(c, action, conversation_name)
         IN  IF r.result.kind = "raise" THEN r ELSE Done(r.cm, content)

\* ConversationManager.get_actions_for_conversation
RECURSIVE get_actions_for_conversation(_, _)
get_actions_for_conversation(names_and_actions, conversation_name) ==
    IF names_and_actions = <<>> THEN <<>>
    ELSE LET rest == get_actions_for_conversation(Tail(names_and_actions), conversation_name)
         IN  IF Head(names_and_actions).name = conversation_name
             THEN <<Head(names_and_actions).action>> \o rest ELSE rest

\* The FailedChatgptResponse / AppendChatgptResponse actions built during one
\* call of get_and_append_assistant_message are all given the one list object
\* actual_hidden_messages, which the loop extends afterwards: when the call
\* is over, the last n recorded actions show the list as it is then.
RECURSIVE with_shared_list(_, _, _)
with_shared_list(names_and_actions, n, actual_hidden_messages) ==
    IF n = 0 \/ names_and_actions = <<>> THEN names_and_actions
    ELSE LET k == Len(names_and_actions)
         IN  Append(with_shared_list(SubSeq(names_and_actions, 1, k - 1), n - 1,
                                     actual_hidden_messages),
                    [names_and_actions[k] EXCEPT
                        !.action.hidden_messages = actual_hidden_messages])

\* the loop of get_and_append_assistant_message, at element k of
\* indices_and_messages[1:] (here rest, the indices only); the language model
\* fails the first fails requests of the call.  attempts lists the
\* hidden_messages each request was made with.
RECURSIVE retry_loop(_, _, _, _, _, _, _, _)
retry_loop(c, tag, conversation_name, rest, k, actual_hidden_messages, fails, attempts) ==
    IF k > Len(rest)
    THEN [cm |-> c, attempts |-> attempts, actual_hidden_messages |-> actual_hidden_messages,
          result |-> Raise("RuntimeError",
                           "Failed accessing openai despite removing all messages.")]
    ELSE LET t == try_get_and_append_chatgpt_response(
                      c, tag, conversation_name, actual_hidden_messages,
                      IF Len(attempts) < fails THEN "fail" ELSE "ok")
             made == Append(attempts, actual_hidden_messages)
         IN  IF t.result.kind = "raise" \/ t.result.type = "str"
             THEN [cm |-> t.cm, attempts |-> made,
                   actual_hidden_messages |-> actual_hidden_messages, result |-> t.result]
             ELSE retry_loop(t.cm, tag, conversation_name, rest, k + 1,
                             Append(actual_hidden_messages, rest[k]), fails, made)

\* get_and_append_assistant_message looping over indices_and_messages instead
\* of indices_and_messages[1:]
get_and_append_assistant_message_from_first(c, tag, conversation_name, hidden_messages, fails) ==
    IF conversation_name \notin DOMAIN c.conversations
    THEN [cm |-> c, attempts |-> <<>>, chosen |-> <<>>,
          result |-> Raise("KeyError", conversation_name)]
    ELSE LET indices_and_messages ==
                 get_chosen_indices(c.conversations[conversation_name], hidden_messages, 0)
             r == retry_loop(c, tag, conversation_name, indices_and_messages, 1,
                             hidden_messages, fails, <<>>)
         IN  [cm |-> r.cm, attempts |-> r.attempts, chosen |-> indices_and_messages,
              result |-> r.result]

\* ConversationManager.get_and_append_assistant_message
get_and_append_assistant_message(c, tag, conversation_name, hidden_messages, fails) ==
    IF conversation_name \notin DOMAIN c.conversations
    THEN [cm |-> c, attempts |-> <<>>, chosen |-> <<>>,
          result |-> Raise("KeyError", conversation_name)]
    ELSE LET indices_and_messages ==
                 get_chosen_indices(c.conversations[conversation_name], hidden_messages, 0)
             rest == IF indices_and_messages = <<>> THEN <<>> ELSE Tail(indices_and_messages)
             r == retry_loop(c, tag, conversation_name, rest, 1, hidden_messages, fails, <<>>)
             n == Len(r.attempts)
         IN  [cm |-> [r.cm EXCEPT
                        !.conversation_names_and_actions =
                            with_shared_list(@, n, r.actual_hidden_messages),
                        !.applied = with_shared_list(@, n, r.actual_hidden_messages)],
              attempts |-> r.attempts, chosen |-> indices_and_messages, result |-> r.result]

\* ConversationManager.regenerate_previous_response
regenerate_previous_response(c, conversation_name, outcome) ==
    LET actions == get_actions_for_conversation(c.conversation_names_and_actions,
                                                conversation_name)
        last_action == actions[Len(actions)]
        content == try_get_chatgpt_response(outcome)
    IN  IF actions = <<>> THEN Done(c, Raise("IndexError", conversation_name))
        ELSE IF ~IsAppendChatgptResponse(last_action)
        THEN Done(c, Raise("AssertionError", conversation_name))
        ELSE IF conversation_name \notin DOMAIN c.conversations
        THEN Done(c, Raise("KeyError", conversation_name))
        ELSE append_and_apply_action(
                 c,
                 RegenerateLastResponse(last_action.hidden_messages,
                                        Message(last_action.message.role, content.detail,
                                                last_action.message.tag)),
                 conversation_name)

\* ConversationManager(): no conversation, no action
InitCm ==
    /\ cm = [conversations |-> [n \in {} |-> <<>>],
             conversation_names_and_actions |-> <<>>,
             applied |-> <<>>]
    /\ cmLast = [op |-> "init"]

CanCall == Len(cm.conversation_names_and_actions) < MaxActions

\* append_message calls: (role, tag, conversation_name); the content names the role
AppendCalls == {<<"system", NoTag, "None">>, <<"user", "t", "None">>,
                <<"commenter", NoTag, "None">>, <<"user", "t", "aux">>}
\* calls that make one request: (conversation_name, outcome of the request)
ResponseCalls == {<<"None", "ok">>, <<"None", "fail">>, <<"aux", "ok">>}
\* get_and_append_assistant_message calls: (conversation_name, hidden_messages,
\* number of requests that fail before one succeeds)
AssistantCalls ==
    {<<"None", <<>>, fails>> : fails \in {0, 1, 2}}
    \cup {<<"None", <<1>>, 1>>, <<"None", <<1>>, 2>>, <<"aux", <<>>, 0>>}
\* regenerate_previous_response calls: (conversation_name, outcome of the request)
RegenerateCalls == {<<"None", "ok">>, <<"None", "fail">>}

CallCreateConversation(conversation_name) ==
    /\ conversation_name \notin DOMAIN cm.conversations
    /\ cm' = create_conversation(cm, conversation_name)
    /\ cmLast' = [op |-> "create_conversation", conversation_name |-> conversation_name]
    /\ UNCHANGED <<guardVars, skVars>>

CallAppendMessage(role, tag, conversation_name) ==
    /\ CanCall
    /\ LET r == append_message(cm, role, role, tag, conversation_name)
       IN  /\ cm' = r.cm
           /\ cmLast' = [op |-> "append_message", conversation_name |-> conversation_name,
                         result |-> r.result]
    /\ UNCHANGED <<guardVars, skVars>>

CallResetBackToTag(tag, conversation_name) ==
    /\ CanCall
    /\ LET r == reset_back_to_tag(cm, tag, conversation_name)
       IN  /\ cm' = r.cm
           /\ cmLast' = [op |-> "reset_back_to_tag", conversation_name |-> conversation_name,
                         result |-> r.result]
    /\ UNCHANGED <<guardVars, skVars>>

CallDeleteMessages(message_designation, conversation_name) ==
    /\ CanCall
    /\ LET r == delete_messages(cm, message_designation, conversation_name)
       IN  /\ cm' = r.cm
           /\ cmLast' = [op |-> "delete_messages", conversation_name |-> conversation_name,
                         result |-> r.result]
    /\ UNCHANGED <<guardVars, skVars>>

CallTryGetAndAppend(conversation_name, hidden_messages, outcome) ==
    /\ CanCall
    /\ LET r == try_get_and_append_chatgpt_response(cm, NoTag, conversation_name,
                                                    hidden_messages, outcome)
       IN  /\ cm' = r.cm
           /\ cmLast' = [op |-> "try_get_and_append_chatgpt_response",
                         conversation_name |-> conversation_name, result |-> r.result]
    /\ UNCHANGED <<guardVars, skVars>>

\* get_and_append_assistant_message; recorded_before is the number of recorded
\* actions when the call started
CallGetAndAppend(conversation_name, hidden_messages, fails) ==
    /\ Len(cm.conversation_names_and_actions) <= MaxActions
    /\ LET r == get_and_append_assistant_message(cm, NoTag, conversation_name,
                                                 hidden_messages, fails)
       IN  /\ cm' = r.cm
           /\ cmLast' = [op |-> "get_and_append_assistant_message",
                         conversation_name |-> conversation_name,
                         hidden_messages |-> hidden_messages, fails |-> fails,
                         chosen |-> r.chosen, attempts |-> r.attempts,
                         recorded_before |-> Len(cm.conversation_names_and_actions),
                         result |-> r.result]
    /\ UNCHANGED <<guardVars, skVars>>

CallRegenerate(conversation_name, outcome) ==
    /\ CanCall
    /\ LET r == regenerate_previous_response(cm, conversation_name, outcome)
       IN  /\ cm' = r.cm
           /\ cmLast' = [op |-> "regenerate_previous_response",
                         conversation_name |-> conversation_name, outcome |-> outcome,
                         result |-> r.result]
    /\ UNCHANGED <<guardVars, skVars>>

Init == InitGuards /\ InitSk /\ InitCm

Next ==
    \/ \E allowed \in AllowPairs : EnterFileOpen(allowed[1], allowed[2])
    \/ \E pairs \in PairLists : EnterPreventCalling(pairs)
    \/ \E modules \in ModuleLists : EnterPreventImport(modules)
    \/ \E call \in OpenCalls, caller \in OpenCallers, base \in BaseOutcomes :
            CallOpen(call, caller, base)
    \/ \E op \in Ops, args \in CallArgs, caller \in CallerFiles, base \in BaseOutcomes :
            CallFunction(op, args, caller, base)
    \/ \E name \in ModuleNames, caller \in CallerFiles, base \in BaseOutcomes :
            Import(name, caller, base)
    \/ Resume
    \/ \E e \in BodyErrors : BodyRaise(e)
    \/ ExitNormal
    \/ ExitRaise
    \/ Catch

Spec == Init /\ [][Next]_vars

NextSklearn ==
    \/ EnterSklearnOverride
    \/ ExitSklearnOverride
    \/ \E obj \in Objs, attr_name \in Methods, caller \in SkCallers, base \in BaseOutcomes :
            CallMethod(obj, attr_name, caller, base)

SklearnSpec == Init /\ [][NextSklearn]_vars

NextSearchLimit ==
    \/ \E m \in MaxIterationsChoices : EnterSearchLimitCheck(m)
    \/ ExitSearchLimitCheck
    \/ \E n \in 0..MaxLen, callerStack \in CallerStacks : CallLen(n, callerStack)

SearchLimitSpec == Init /\ [][NextSearchLimit]_vars

NextRandomState ==
    \/ EnterRandomStateOverride
    \/ ExitRandomStateOverride
    \/ \E parent \in RandomStateParents, args \in CtorArgs, kwargs \in CtorKwargs,
          base \in BaseOutcomes : ConstructModel(parent, args, kwargs, base)

RandomStateSpec == Init /\ [][NextRandomState]_vars

NextNNSize ==
    \/ \E limits \in NNLimits : EnterNNSizeOverride(limits)
    \/ ExitNNSizeOverride
    \/ \E parent \in NNParents, call \in NNCalls, base \in BaseOutcomes :
            ConstructNN(parent, call, base)

NNSizeSpec == Init /\ [][NextNNSize]_vars

NextConversation ==
    \/ \E conversation_name \in ConversationNames : CallCreateConversation(conversation_name)
    \/ \E call \in AppendCalls : CallAppendMessage(call[1], call[2], call[3])
    \/ CallResetBackToTag("t", "None")
    \/ CallDeleteMessages(<<-1>>, "None")
    \/ \E call \in ResponseCalls : CallTryGetAndAppend(call[1], <<>>, call[2])
    \/ \E call \in AssistantCalls : CallGetAndAppend(call[1], call[2], call[3])
    \/ \E call \in RegenerateCalls : CallRegenerate(call[1], call[2])

ConversationSpec == Init /\ [][NextConversation]_vars

------------------------------------------------------------------------------
(* Properties of the guards (specification Spec) *)

\* every operation named in frame fr holds in e what it held just before fr's guard was entered
RestoredTo(e, fr) == \A i \in 1..Len(fr.slots) : e[fr.slots[i]] = fr.pre[fr.slots[i]]

DistinctOps(slots) == \A i, j \in 1..Len(slots) : slots[i] = slots[j] => i = j

\* C1: after the scope of a guard (prevent_file_open, prevent_calling over distinct
\* operations, PreventImport) has exited, by return or by an error, every operation
\* the guard intercepted is the value it was just before the guard was entered.
C1_RestoredAfterExit ==
    (last.op = "exit" /\ DistinctOps(last.frame.slots)) => RestoredTo(env, last.frame)

\* an inner prevent_calling over two distinct operations, one of them already wrapped
\* by the enclosing guard, is left by an error
C1_Witness ==
    /\ last.op = "exit"
    /\ last.path = "raise"
    /\ last.frame.kind = "prevent_calling"
    /\ last.frame.slots = <<"f1", "f2">>
    /\ last.frame.pre.f1 # <<>>
    /\ stack # <<>>
    /\ env.f1 = last.frame.pre.f1

\* C2: while prevent_file_open is active, an open that does not come from the
\* sandboxed unit is forwarded to the original open and raises neither
\* CodeReadForbiddenFile nor CodeWriteForbiddenFile.
C2_OutsideOpenForwarded ==
    (last.op = "open" /\ last.target # <<>> /\ last.caller # SandboxFile) =>
        /\ last.result.type \notin {"CodeReadForbiddenFile", "CodeWriteForbiddenFile"}
        /\ last.result = Via(Tail(last.target), last.args,
                             InvokeOpen(Tail(last.target), last.args, last.base))

\* C3: a sandboxed open of resource r that the wrapper classifies in direction d
\* raises the Forbidden error of d carrying r, without calling the original open,
\* exactly when the allow-list of d is not None and r is not in it; otherwise the
\* wrapper's result is the result of the original open on the same arguments.
C3_OpenAllowedOrForbidden ==
    (last.op = "open" /\ last.target # <<>> /\ last.caller = SandboxFile) =>
        LET c == Head(last.target)
            original == Tail(last.target)
            r == file_name_of(last.args)
            writing == is_opening_for_writing(last.args)
            list == IF writing THEN c.allowed_write_files ELSE c.allowed_read_files
            denied == ~list.isNone /\ \A i \in 1..Len(list.items) : list.items[i] # r
        IN  IF denied
            THEN last.result = [kind |-> "raise",
                                type |-> IF writing THEN "CodeWriteForbiddenFile"
                                                    ELSE "CodeReadForbiddenFile",
                                detail |-> r, trace |-> <<>>]
            ELSE /\ last.result.trace # <<>>
                 /\ Head(last.result.trace) = [callee |-> original, args |-> last.args]
                 /\ last.result = Via(original, last.args, InvokeOpen(original, last.args, last.base))

\* the sandboxed unit reads "b.txt" under allowed_read_files = ["a.txt"] and is refused
C3_Witness ==
    /\ last.op = "open"
    /\ last.target # <<>>
    /\ last.caller = SandboxFile
    /\ Head(last.target).allowed_read_files = AllowOnly(<<"a.txt">>)
    /\ file_name_of(last.args) = "b.txt"
    /\ last.result.type = "CodeReadForbiddenFile"
    /\ last.result.detail = "b.txt"

C6_StackRestored ==
    /\ last.op = "exit" => RestoredTo(env, last.frame)
    /\ (last.op = "exit" /\ last.outer) =>
            \A s \in DOMAIN env : env[s] = last.frame.pre[s]

\* C7: for every list of pairs given to one prevent_calling guard, distinct or
\* not, after exit each named operation holds the value it had before enter.
C7_EveryListRestored ==
    (last.op = "exit" /\ last.frame.kind = "prevent_calling") => RestoredTo(env, last.frame)

\* C8: an error raised inside the scope of a guard leaves the scope as the same
\* error, and by then the guard has restored the operations it replaced.
C8_ErrorLeavesAfterRestore ==
    (last.op = "exit" /\ last.path = "raise") =>
        /\ last.excOut = last.excIn
        /\ exc = last.excIn
        /\ pc = "raising"
        /\ RestoredTo(env, last.frame)

------------------------------------------------------------------------------
(* Properties of the sklearn policies *)

C10_LenWithinBudgetOrBudgetError ==
    (skLast.op = "len" /\ skLast.is_wrapped) =>
        IF skLast.n <= skLast.max_iterations
        THEN skLast.result = Return("int", skLast.n)
        ELSE /\ skLast.result.kind = "raise"
             /\ skLast.result.type = "RuntimeWarning"
             /\ skLast.result.detail.original_len = skLast.n
             /\ skLast.result.detail.max_iterations = skLast.max_iterations

------------------------------------------------------------------------------
(* Properties of SklearnRandomStateOverride (specification RandomStateSpec) *)

\* C11: with SklearnRandomStateOverride active, constructing a targeted class
\* delegates to the original constructor with random_state = 0 added to the
\* caller's arguments when the caller passed no random_state, and with exactly
\* the caller's arguments when the caller passed one.
C11_SeedAddedOnlyWhenAbsent ==
    (skLast.op = "construct" /\ skLast.is_wrapped) =>
        LET received == skLast.result.detail
            passed == "random_state" \in DOMAIN skLast.kwargs
        IN  /\ skLast.result.kind = (IF skLast.base = "ok" THEN "return" ELSE "raise")
            /\ received.parent = skLast.parent
            /\ received.args = skLast.args
            /\ passed => received.kwargs = skLast.kwargs
            /\ ~passed =>
                  /\ DOMAIN received.kwargs = DOMAIN skLast.kwargs \cup {"random_state"}
                  /\ received.kwargs["random_state"] = 0
                  /\ \A k \in DOMAIN skLast.kwargs : received.kwargs[k] = skLast.kwargs[k]

\* a caller constructs ElasticNet(100, random_state=42, max_iter=500) under the
\* policy and the original constructor receives the seed 42
C11_Witness ==
    /\ skLast.op = "construct"
    /\ skLast.is_wrapped
    /\ skLast.parent = "ElasticNet"
    /\ skLast.args = <<100>>
    /\ DOMAIN skLast.kwargs = {"random_state", "max_iter"}
    /\ skLast.kwargs["random_state"] = 42
    /\ skLast.result.kind = "return"
    /\ skLast.result.detail.kwargs["random_state"] = 42

------------------------------------------------------------------------------
(* Properties of SklearnNNSizeOverride (specification NNSizeSpec) *)

\* C12: for every configured (max_layers, max_neurons_per_layer) and every
\* layer configuration passed as hidden_layer_sizes, the wrapper raises the
\* too-many-layers error when there are more than max_layers layers, the
\* layer-too-large error when a layer is larger than max_neurons_per_layer,
\* and delegates to the original constructor only when neither limit is
\* exceeded.
C12_SizeLimitsEnforced ==
    (/\ skLast.op = "construct_nn"
     /\ skLast.is_wrapped
     /\ "hidden_layer_sizes" \in DOMAIN skLast.call.kwargs) =>
        LET h == skLast.call.kwargs["hidden_layer_sizes"]
            tooMany == Len(h) > skLast.max_layers
            tooLarge == \E i \in 1..Len(h) : h[i] > skLast.max_neurons_per_layer
            r == skLast.result
            layersError == r.kind = "raise" /\ r.type = "RuntimeWarning"
                           /\ r.detail.text = "hidden_layer_sizes is too large"
            neuronsError == r.kind = "raise" /\ r.type = "RuntimeWarning"
                            /\ r.detail.text = "layer with too many neurons"
        IN  /\ (tooMany /\ ~tooLarge) => layersError
            /\ (tooLarge /\ ~tooMany) => neuronsError
            /\ (tooMany /\ tooLarge) => (layersError \/ neuronsError)
            /\ (~tooMany /\ ~tooLarge) =>
                  r = Via("__init__", skLast.call,
                          original_init(skLast.parent, skLast.call.args, skLast.call.kwargs,
                                        skLast.base))

\* C18: with SklearnNNSizeOverride active, a constructor call without the
\* hidden_layer_sizes keyword ends with a size violation or with one
\* delegation to the original constructor.
C18_NoKeywordCallChecksOrDelegates ==
    (/\ skLast.op = "construct_nn"
     /\ skLast.is_wrapped
     /\ "hidden_layer_sizes" \notin DOMAIN skLast.call.kwargs) =>
        \/ /\ skLast.result.kind = "raise"
           /\ skLast.result.type = "RuntimeWarning"
        \/ /\ Len(skLast.result.trace) = 1
           /\ skLast.result = Via("__init__", skLast.call,
                                  original_init(skLast.parent, skLast.call.args,
                                                skLast.call.kwargs, skLast.base))

------------------------------------------------------------------------------
(* Properties of ConversationManager (specification ConversationSpec) *)

\* C13: after any sequence of manager calls, failed ones included,
\* conversation_names_and_actions lists exactly the actions that were applied
\* to a conversation, with the conversation's name, in the order of
\* application.
C13_RecordedExactlyApplied ==
    cm.conversation_names_and_actions = cm.applied

\* the actions the last call of get_and_append_assistant_message recorded
RecordedByLastCall ==
    SubSeq(cm.conversation_names_and_actions, cmLast.recorded_before + 1,
           Len(cm.conversation_names_and_actions))

\* the chosen messages after the first one, at most that many requests are made
MostAttempts == IF cmLast.chosen = <<>> THEN 0 ELSE Len(cmLast.chosen) - 1

\* C14: get_and_append_assistant_message on an existing conversation makes at
\* most (number of chosen messages - 1) requests, returns the content of the
\* first successful one and makes no request after it, records one
\* FailedChatgptResponse per failed request and one AppendChatgptResponse for
\* the successful one, and raises RuntimeError when no request succeeds.
C14_RetryEndsAndRecords ==
    (/\ cmLast.op = "get_and_append_assistant_message"
     /\ cmLast.conversation_name \in DOMAIN cm.conversations) =>
        LET made == Len(cmLast.attempts)
            recorded == RecordedByLastCall
            succeeded == cmLast.fails < MostAttempts
        IN  /\ made <= MostAttempts
            /\ Len(recorded) = made
            /\ \A k \in 1..Len(recorded) :
                  /\ recorded[k].name = cmLast.conversation_name
                  /\ recorded[k].action.type =
                        (IF k <= cmLast.fails THEN "FailedChatgptResponse"
                         ELSE "AppendChatgptResponse")
            /\ succeeded =>
                  /\ made = cmLast.fails + 1
                  /\ cmLast.result = Return("str", "response")
                  /\ recorded[made].action.message.content = "response"
            /\ ~succeeded =>
                  /\ made = MostAttempts
                  /\ cmLast.result.kind = "raise"
                  /\ cmLast.result.type = "RuntimeError"

\* three messages are chosen, the first request fails, the second succeeds
C14_Witness ==
    /\ cmLast.op = "get_and_append_assistant_message"
    /\ Len(cmLast.chosen) = 3
    /\ cmLast.fails = 1
    /\ Len(cmLast.attempts) = 2
    /\ cmLast.result.kind = "return"
    /\ Len(RecordedByLastCall) = 2

\* C15: in get_and_append_assistant_message request k is made with the
\* caller's hidden messages plus the first k-1 chosen messages after the
\* first chosen one, the first chosen message is never hidden, and the
\* RuntimeError is raised only after at least one request was made and a
\* request hiding every chosen message but the first one has failed.
C15_AllHiddenBeforeGivingUp ==
    (/\ cmLast.op = "get_and_append_assistant_message"
     /\ cmLast.conversation_name \in DOMAIN cm.conversations) =>
        LET rest == IF cmLast.chosen = <<>> THEN <<>> ELSE Tail(cmLast.chosen)
        IN  /\ \A k \in 1..Len(cmLast.attempts) :
                  /\ k - 1 <= Len(rest)
                  /\ cmLast.attempts[k] = cmLast.hidden_messages \o SubSeq(rest, 1, k - 1)
            /\ (cmLast.result.kind = "raise" /\ cmLast.result.type = "RuntimeError") =>
                  /\ Len(cmLast.attempts) >= 1
                  /\ \E k \in 1..Len(cmLast.attempts) :
                        cmLast.attempts[k] = cmLast.hidden_messages \o rest

------------------------------------------------------------------------------
(* Properties of the error kinds and of the classification of calls *)

\* the kind (exception class) of the error each rule's violation is reported
\* with, read off the wrappers
kind_forbidden_read ==
    open_wrapper([allowed_read_files |-> AllowOnly(<<>>), allowed_write_files |-> AllowNone],
                 <<>>, [args |-> <<"b.txt">>, kwargs |-> NoKw], "ok").type
kind_forbidden_write ==
    open_wrapper([allowed_read_files |-> AllowNone, allowed_write_files |-> AllowOnly(<<>>)],
                 <<>>, [args |-> <<"b.txt", <<"w">>>>, kwargs |-> NoKw], "ok").type
kind_forbidden_call ==
    upon_called(get_upon_called(1, 1, "f1"), <<>>, "f1", <<>>, SandboxFile, "ok").type
kind_forbidden_import ==
    custom_import([kind |-> "custom_import", g |-> 1, modules |-> <<mod_os>>], <<>>, mod_os,
                  SandboxFile, "ok").type
kind_result_reuse ==
    SklearnOverride_wrapped([NewObj EXCEPT !.prior = SelfInstance], attr_fit, SandboxFile,
                            "ok").result.type
kind_iteration_budget ==
    SklearnSearchLimitCheck_wrapped(max_iterations_default + 1, max_iterations_default,
                                    <<SearchFrame>>).type
kind_too_many_layers ==
    SklearnNNSizeOverride_wrapped("MLPRegressor",
        [args |-> <<>>, kwargs |-> [k \in {"hidden_layer_sizes"} |-> <<30, 40, 10>>]],
        max_layers_default, max_neurons_per_layer_default, "ok", 1).type
kind_layer_too_large ==
    SklearnNNSizeOverride_wrapped("MLPRegressor",
        [args |-> <<>>, kwargs |-> [k \in {"hidden_layer_sizes"} |-> <<30, 60>>]],
        max_layers_default, max_neurons_per_layer_default, "ok", 1).type

\* C16 (NNSizeSpec): the error of a size violation has a kind that no other
\* rule's violation has: forbidden read, forbidden write, forbidden call,
\* forbidden import, result reuse, iteration budget, too many layers and layer
\* too large are pairwise different kinds.
C16_ViolationKindsDistinct ==
    (/\ skLast.op = "construct_nn"
     /\ skLast.is_wrapped
     /\ skLast.result.kind = "raise"
     /\ skLast.result.trace = <<>>
     /\ skLast.result.type # "RecursionError") =>
        LET layers == skLast.result.detail.text = "hidden_layer_sizes is too large"
            others == {kind_forbidden_read, kind_forbidden_write, kind_forbidden_call,
                       kind_forbidden_import, kind_result_reuse, kind_iteration_budget}
                      \cup (IF layers THEN {kind_layer_too_large} ELSE {kind_too_many_layers})
        IN  /\ skLast.result.type = (IF layers THEN kind_too_many_layers
                                     ELSE kind_layer_too_large)
            /\ skLast.result.type \notin others
            /\ Cardinality(others) = 7

\* a mode that permits creating or modifying the resource
PermitsWriting(open_mode) ==
    \E i \in 1..Len(open_mode) : open_mode[i] \in {"w", "a", "x", "+"}

\* C17 (Spec): under a guard with a write allow-list that is not None, a
\* sandboxed open whose mode contains 'w', 'a', 'x' or '+', for a resource
\* that is not in the write allow-list, raises CodeWriteForbiddenFile and does
\* not reach the original open.
C17_WritingModesDenied ==
    (/\ last.op = "open"
     /\ last.target # <<>>
     /\ last.caller = SandboxFile
     /\ ~Head(last.target).allowed_write_files.isNone
     /\ PermitsWriting(open_mode_of(last.args))
     /\ ~InList(file_name_of(last.args), Head(last.target).allowed_write_files.items)) =>
        last.result = [kind |-> "raise", type |-> "CodeWriteForbiddenFile",
                       detail |-> file_name_of(last.args), trace |-> <<>>]

\* the nearest frame (innermost first) whose self has a fit operation, 0 when
\* there is none
RECURSIVE NearestFitFrame(_, _)
NearestFitFrame(frames, k) ==
    IF k > Len(frames) THEN 0
    ELSE IF frames[k].has_self /\ frames[k].has_fit THEN k
    ELSE NearestFitFrame(frames, k + 1)

\* C19 (SearchLimitSpec): when the computed size exceeds max_iterations, the
\* error leaving the wrapper is the iteration-budget error, whatever the call
\* stack: its subject is the class name of the estimator of the nearest frame
\* whose self has a fit operation, or 'Unknown' when there is no such frame.
C19_BudgetErrorForEveryStack ==
    (skLast.op = "len" /\ skLast.is_wrapped /\ skLast.n > skLast.max_iterations) =>
        LET k == NearestFitFrame(skLast.callerStack, 1)
        IN  /\ skLast.result.kind = "raise"
            /\ skLast.result.type = "RuntimeWarning"
            /\ k = 0 => skLast.result.detail.estimator_class_name = "Unknown"
            /\ (k > 0 /\ skLast.callerStack[k].has_estimator) =>
                    skLast.result.detail.estimator_class_name = skLast.callerStack[k].cls

\* C20 (Spec): a call or an import whose immediate caller is framework code
\* in a file whose name ends with the characters of module_filename, without
\* being the sandboxed unit's file, is not attributed to the sandboxed unit:
\* it is forwarded to the original and no Forbidden error is raised.
C20_LookalikeCallerForwarded ==
    (/\ last.op \in {"call", "import"}
     /\ last.target # <<>>
     /\ last.caller = LookalikeFile) =>
        /\ last.result.type \notin {"CodeUsesForbiddenFunctions", "CodeImportForbiddenModule"}
        /\ last.result.trace # <<>>
        /\ Head(last.result.trace).callee = Tail(last.target)

------------------------------------------------------------------------------
(* Further properties of ConversationManager and of the guards *)

\* C21 (ConversationSpec): regenerate_previous_response, when it goes through,
\* records one RegenerateLastResponse action with the role, tag and hidden
\* messages of the response action before it and with a response string as
\* message content; a failed re-query leaves no action whose message content
\* is the failure.
C21_RegenerateRecordsResponse ==
    (cmLast.op = "regenerate_previous_response" /\ cmLast.result.kind = "return") =>
        LET actions == get_actions_for_conversation(cm.conversation_names_and_actions,
                                                    cmLast.conversation_name)
            new == actions[Len(actions)]
            previous == actions[Len(actions) - 1]
        IN  /\ Len(actions) >= 2
            /\ new.type = "RegenerateLastResponse"
            /\ new.hidden_messages = previous.hidden_messages
            /\ new.message.role = previous.message.role
            /\ new.message.tag = previous.message.tag
            /\ new.message.content = try_get_chatgpt_response("ok").detail
            /\ new.message.content # try_get_chatgpt_response("fail").detail

\* C22 (ConversationSpec): each response action recorded during
\* get_and_append_assistant_message has, once the call is over, the
\* hidden_messages its request was made with; later retries do not change it.
C22_RecordedHiddenMessagesKept ==
    (/\ cmLast.op = "get_and_append_assistant_message"
     /\ cmLast.conversation_name \in DOMAIN cm.conversations) =>
        /\ Len(RecordedByLastCall) = Len(cmLast.attempts)
        /\ \A k \in 1..Len(cmLast.attempts) :
              RecordedByLastCall[k].action.hidden_messages = cmLast.attempts[k]

\* C23 (Spec): when entering prevent_calling fails part-way, on a pair naming
\* an operation its owner does not have, every owner.operation holds its
\* pre-entry value once the failure propagates.
C23_FailedEnterLeavesNothingReplaced ==
    (last.op = "enter" /\ last.failed) =>
        \A op \in Ops : env[op] = last.frame.pre[op]

\* the wrappers of the prevent_file_open guards of stack st, innermost first
RECURSIVE FileGuardChain(_)
FileGuardChain(st) ==
    IF st = <<>> THEN <<>>
    ELSE LET fr == Head(st)
         IN  IF fr.kind = "prevent_file_open"
             THEN FileGuardChain(Tail(st))
                  \o <<[kind |-> "open_wrapper", g |-> fr.g,
                        allowed_read_files |-> fr.allowed_read_files,
                        allowed_write_files |-> fr.allowed_write_files]>>
             ELSE FileGuardChain(Tail(st))

\* the real open was reached by the last call
ReachedRealOpen(r) == r.trace # <<>> /\ r.trace[Len(r.trace)].callee = <<>>

\* C24 (Spec): with nested prevent_file_open guards the restrictions
\* accumulate: builtins.open is at all times the chain of the wrappers of
\* exactly the active guards (so after an inner guard exits the enclosing
\* restriction is in force unchanged), and an open reaches the real open only
\* if the allow-list, for the call's direction, of every active guard is None
\* or contains the resource.
C24_NestedRestrictionsAccumulate ==
    /\ env.open = FileGuardChain(stack)
    /\ (last.op = "open" /\ ReachedRealOpen(last.result)) =>
          \A i \in 1..Len(stack) :
              stack[i].kind = "prevent_file_open" =>
                  LET list == IF is_opening_for_writing(last.args)
                              THEN stack[i].allowed_write_files
                              ELSE stack[i].allowed_read_files
                  IN  list.isNone \/ InList(file_name_of(last.args), list.items)

\* inside two nested guards the inner one permits reading "b.txt", the
\* enclosing one does not: the call passes the inner wrapper and is refused by
\* the enclosing one
C24_Witness ==
    /\ last.op = "open"
    /\ Len(last.target) = 2
    /\ Len(stack) = 2
    /\ Head(last.target).allowed_read_files.isNone
    /\ ~is_opening_for_writing(last.args)
    /\ file_name_of(last.args) = "b.txt"
    /\ last.result.kind = "raise"
    /\ last.result.type = "CodeReadForbiddenFile"
    /\ Len(last.result.trace) = 1


====
